---- MODULE Spec2Model ----
(***************************************************************************)
(* Model of the acell crate: Cell (src/src/cell.rs), RefCell with its Ref  *)
(* and RefMut guards (src/src/refcell.rs) and Rc (src/src/rc.rs).          *)
(*                                                                         *)
(* A client is a single thread that calls the public operations in any     *)
(* order.  A guard or a handle is an object the client holds; dropping it  *)
(* runs its Drop implementation.  A panic ends the run.                    *)
(***************************************************************************)
EXTENDS Naturals, FiniteSets

\* ---------------------------------------------------------------- bounds
\* width in bits of the modelled usize
WordBits == 3
\* number of guard objects of one RefCell the client can hold at once; a
\* guard the client holds occupies memory, so fewer than 2^WordBits of them
\* exist at a time
MaxGuards == 4
\* number of Rc handles the client can hold at once
MaxHandles == 3
\* number of RcInner blocks the allocator hands out in one run
MaxBlocks == 2
\* the values a cell or a block can hold are 0..MaxValue
MaxValue == 1
\* number of stand-alone Cell objects the client works with
MaxCells == 3
\* deallocations of one block that are counted; a block handed back more
\* often is not handed back again
MaxDeallocs == 2

WordMax == 2^WordBits - 1
Values == 0..MaxValue
GuardIds == 1..MaxGuards
HandleIds == 1..MaxHandles
Blocks == 1..MaxBlocks
CellIds == 1..MaxCells

VARIABLES
    state,      \* RefCell.state : Cell<RefState>
    value,      \* RefCell.value : UnsafeCell<T>
    refs,       \* the Ref guards of the cell the client holds
    muts,       \* the RefMut guards of the cell the client holds
    call,       \* the last RefCell/guard operation and what it returned
    prev,       \* the RefCell/guard operation before the last one
    inner,      \* the heap: block -> "fresh", "alloc" or "freed"
    rcValue,    \* RcInner.value of each block
    refcount,   \* RcInner.refcount of each block : Cell<usize>
    handles,    \* Rc.inner of each handle the client holds (0: no handle)
    deallocs,   \* number of times each block was handed back to the allocator
    rcCall,     \* the last Rc operation and what it returned
    cells,      \* the stand-alone Cell<T> objects
    written,    \* per cell, the argument of the latest set (of new if none)
    cellCall,   \* the last Cell operation
    cellPrev,   \* the Cell operation before the last one
    got,        \* the copy the latest Cell::get returned ("none": no get yet)
    panicked    \* "none", or the kind of panic that ended the run

refcellVars == <<state, value, refs, muts, call, prev>>
rcVars == <<inner, rcValue, refcount, handles, deallocs, rcCall>>
cellVars == <<cells, written, cellCall, cellPrev, got>>
vars == <<state, value, refs, muts, call, prev, inner, rcValue, refcount,
          handles, deallocs, rcCall, cells, written, cellCall, cellPrev, got,
          panicked>>

\* ------------------------------------------------------------------ Cell
\* Cell::new: the slot holds the value
CellNew(v) == [value |-> v]

\* CellSet that leaves the slot as it was
CellSetKeepsOld(cell, v) == cell

\* Cell::set: the slot is overwritten
CellSet(cell, v) == [cell EXCEPT !.value = v]

\* Cell::get: a copy of the slot
CellGet(cell) == cell.value

\* ---------------------------------------------------------- usize arithmetic
\* n + 1 on a usize: the sum, or on overflow a panic (overflow checks on) or
\* the wrapped sum (overflow checks off)
UsizeInc(n) ==
    IF n + 1 > WordMax
    THEN {[ok |-> FALSE, v |-> 0], [ok |-> TRUE, v |-> (n + 1) % (WordMax + 1)]}
    ELSE {[ok |-> TRUE, v |-> n + 1]}

\* n - 1 on a usize: the difference, or on underflow a panic or the wrapped
\* difference
UsizeDec(n) ==
    IF n = 0
    THEN {[ok |-> FALSE, v |-> 0], [ok |-> TRUE, v |-> WordMax]}
    ELSE {[ok |-> TRUE, v |-> n - 1]}

\* --------------------------------------------------------------- RefState
Unshared == [tag |-> "Unshared", n |-> 0]
Shared(n) == [tag |-> "Shared", n |-> n]
Exclusive == [tag |-> "Exclusive", n |-> 0]

NoCall == [op |-> "none", res |-> "none", guard |-> 0, read |-> 0]
Returned(op, res, g, v) == [op |-> op, res |-> res, guard |-> g, read |-> v]

NoRcCall == [op |-> "none", res |-> "none", handle |-> 0, block |-> 0, read |-> 0]
RcReturned(op, res, h, b, v) ==
    [op |-> op, res |-> res, handle |-> h, block |-> b, read |-> v]

NoCellCall == [op |-> "none", cell |-> 0, arg |-> 0]
CellCalled(op, c, v) == [op |-> op, cell |-> c, arg |-> v]

FreshGuards == GuardIds \ (refs \cup muts)

\* ---------------------------------------------------------------- RefCell
\* RefCell::new: the fields of a freshly constructed cell holding v
RefCellNew(v) == [value |-> v, state |-> CellNew(Unshared)]

\* RefCell::new and Cell::new; nothing allocated, no handle
Init ==
    /\ state = CellNew(Unshared)
    /\ value \in Values
    /\ refs = {}
    /\ muts = {}
    /\ call = NoCall
    /\ prev = NoCall
    /\ inner = [b \in Blocks |-> "fresh"]
    /\ rcValue = [b \in Blocks |-> 0]
    /\ refcount = [b \in Blocks |-> CellNew(0)]
    /\ handles = [h \in HandleIds |-> 0]
    /\ deallocs = [b \in Blocks |-> 0]
    /\ rcCall = NoRcCall
    /\ cells = [c \in CellIds |-> CellNew(0)]
    /\ written = [c \in CellIds |-> 0]
    /\ cellCall = NoCellCall
    /\ cellPrev = NoCellCall
    /\ got = "none"
    /\ panicked = "none"

\* BorrowOutcome with the Exclusive arm granting a guard
BorrowOutcomeGrantsInExclusive(s) ==
    CASE s.tag = "Unshared" -> {[some |-> TRUE, ok |-> TRUE, st |-> Shared(1)]}
      [] s.tag = "Shared" ->
            {[some |-> TRUE, ok |-> r.ok, st |-> Shared(r.v)] : r \in UsizeInc(s.n)}
      [] OTHER -> {[some |-> TRUE, ok |-> TRUE, st |-> Shared(1)]}

\* BorrowOutcome with the Shared arm storing n instead of n + 1
BorrowOutcomeNoIncrement(s) ==
    CASE s.tag = "Unshared" -> {[some |-> TRUE, ok |-> TRUE, st |-> Shared(1)]}
      [] s.tag = "Shared" -> {[some |-> TRUE, ok |-> TRUE, st |-> Shared(s.n)]}
      [] OTHER -> {[some |-> FALSE, ok |-> TRUE, st |-> s]}

\* the state RefCell::borrow stores, and whether it returns Some
BorrowOutcome(s) ==
    CASE s.tag = "Unshared" -> {[some |-> TRUE, ok |-> TRUE, st |-> Shared(1)]}
      [] s.tag = "Shared" ->
            {[some |-> TRUE, ok |-> r.ok, st |-> Shared(r.v)] : r \in UsizeInc(s.n)}
      [] OTHER -> {[some |-> FALSE, ok |-> TRUE, st |-> s]}

\* RefCell::borrow
Borrow ==
    /\ panicked = "none"
    /\ \E o \in BorrowOutcome(CellGet(state)) :
          IF ~o.ok
          THEN /\ panicked' = "overflow"
               /\ call' = Returned("borrow", "panic", 0, 0)
               /\ UNCHANGED <<state, refs>>
          ELSE IF o.some
          THEN \E g \in FreshGuards :
                  /\ state' = CellSet(state, o.st)
                  /\ refs' = refs \cup {g}
                  /\ call' = Returned("borrow", "Some", g, 0)
                  /\ UNCHANGED panicked
          ELSE /\ call' = Returned("borrow", "None", 0, 0)
               /\ UNCHANGED <<state, refs, panicked>>
    /\ UNCHANGED <<value, muts>>
    /\ prev' = call
    /\ UNCHANGED rcVars
    /\ UNCHANGED cellVars

\* BorrowMutOutcome matching on "not Exclusive" instead of Unshared
BorrowMutOutcomeGrantsInShared(s) ==
    IF s.tag # "Exclusive"
    THEN [some |-> TRUE, st |-> Exclusive]
    ELSE [some |-> FALSE, st |-> s]

\* BorrowMutOutcome that forgets to store Exclusive
BorrowMutOutcomeKeepsState(s) ==
    IF s.tag = "Unshared"
    THEN [some |-> TRUE, st |-> s]
    ELSE [some |-> FALSE, st |-> s]

\* the state RefCell::borrow_mut stores, and whether it returns Some
BorrowMutOutcome(s) ==
    IF s.tag = "Unshared"
    THEN [some |-> TRUE, st |-> Exclusive]
    ELSE [some |-> FALSE, st |-> s]

\* RefCell::borrow_mut
BorrowMut ==
    /\ panicked = "none"
    /\ LET o == BorrowMutOutcome(CellGet(state)) IN
          IF o.some
          THEN \E g \in FreshGuards :
                  /\ state' = CellSet(state, o.st)
                  /\ muts' = muts \cup {g}
                  /\ call' = Returned("borrow_mut", "Some", g, 0)
          ELSE /\ call' = Returned("borrow_mut", "None", 0, 0)
               /\ UNCHANGED <<state, muts>>
    /\ UNCHANGED <<value, refs, panicked>>
    /\ prev' = call
    /\ UNCHANGED rcVars
    /\ UNCHANGED cellVars

\* RefDropOutcome without the Shared(1) arm: the last release stores Shared(0)
RefDropOutcomeNoLastArm(s) ==
    IF s.tag = "Shared"
    THEN {[panic |-> IF r.ok THEN "none" ELSE "overflow", st |-> Shared(r.v)] :
             r \in UsizeDec(s.n)}
    ELSE {[panic |-> "unreachable", st |-> s]}

\* RefDropOutcome whose first arm matches every Shared(n)
RefDropOutcomeAlwaysUnshared(s) ==
    IF s.tag = "Shared"
    THEN {[panic |-> "none", st |-> Unshared]}
    ELSE {[panic |-> "unreachable", st |-> s]}

\* the match of Drop for Ref: the state it stores, or which panic it raises
RefDropOutcome(s) ==
    IF s.tag = "Shared" /\ s.n = 1
    THEN {[panic |-> "none", st |-> Unshared]}
    ELSE IF s.tag = "Shared"
    THEN {[panic |-> IF r.ok THEN "none" ELSE "overflow", st |-> Shared(r.v)] :
             r \in UsizeDec(s.n)}
    ELSE {[panic |-> "unreachable", st |-> s]}

\* Drop for Ref: the client lets go of one of its Ref guards
DropRef(g) ==
    /\ panicked = "none"
    /\ g \in refs
    /\ refs' = refs \ {g}
    /\ \E o \in RefDropOutcome(CellGet(state)) :
          /\ panicked' = o.panic
          /\ state' = IF o.panic = "none" THEN CellSet(state, o.st) ELSE state
          /\ call' = Returned("drop_ref", IF o.panic = "none" THEN "unit" ELSE "panic", g, 0)
    /\ UNCHANGED <<value, muts>>
    /\ prev' = call
    /\ UNCHANGED rcVars
    /\ UNCHANGED cellVars

\* RefMutDropOutcome that leaves Exclusive stored
RefMutDropOutcomeKeepsExclusive(s) ==
    IF s.tag = "Exclusive"
    THEN [panic |-> "none", st |-> s]
    ELSE [panic |-> "unreachable", st |-> s]

\* RefMutDropOutcome that hands the cell over to a reader on release
RefMutDropOutcomeHandsOver(s) ==
    IF s.tag = "Exclusive"
    THEN [panic |-> "none", st |-> Shared(1)]
    ELSE [panic |-> "unreachable", st |-> s]

\* the match of Drop for RefMut
RefMutDropOutcome(s) ==
    IF s.tag = "Exclusive"
    THEN [panic |-> "none", st |-> Unshared]
    ELSE [panic |-> "unreachable", st |-> s]

\* Drop for RefMut: the client lets go of one of its RefMut guards
DropRefMut(g) ==
    /\ panicked = "none"
    /\ g \in muts
    /\ muts' = muts \ {g}
    /\ LET o == RefMutDropOutcome(CellGet(state)) IN
          /\ panicked' = o.panic
          /\ state' = IF o.panic = "none" THEN CellSet(state, o.st) ELSE state
          /\ call' = Returned("drop_refmut", IF o.panic = "none" THEN "unit" ELSE "panic", g, 0)
    /\ UNCHANGED <<value, refs>>
    /\ prev' = call
    /\ UNCHANGED rcVars
    /\ UNCHANGED cellVars

\* Deref for Ref: a read of the wrapped value through a Ref guard
DerefRef(g) ==
    /\ panicked = "none"
    /\ g \in refs
    /\ call' = Returned("deref_ref", "unit", g, value)
    /\ UNCHANGED <<state, value, refs, muts, panicked>>
    /\ prev' = call
    /\ UNCHANGED rcVars
    /\ UNCHANGED cellVars

\* Deref for RefMut: a read of the wrapped value through a RefMut guard
DerefRefMut(g) ==
    /\ panicked = "none"
    /\ g \in muts
    /\ call' = Returned("deref_refmut", "unit", g, value)
    /\ UNCHANGED <<state, value, refs, muts, panicked>>
    /\ prev' = call
    /\ UNCHANGED rcVars
    /\ UNCHANGED cellVars

\* DerefMut offered by the Ref guard as well
DerefMutThroughAnyGuard(g, v) ==
    /\ panicked = "none"
    /\ g \in refs \cup muts
    /\ value' = v
    /\ call' = Returned("deref_mut", "unit", g, v)
    /\ UNCHANGED <<state, refs, muts, panicked>>
    /\ prev' = call
    /\ UNCHANGED rcVars
    /\ UNCHANGED cellVars

\* DerefMut for RefMut: a write of v through the &mut T of a RefMut guard
DerefMut(g, v) ==
    /\ panicked = "none"
    /\ g \in muts
    /\ value' = v
    /\ call' = Returned("deref_mut", "unit", g, v)
    /\ UNCHANGED <<state, refs, muts, panicked>>
    /\ prev' = call
    /\ UNCHANGED rcVars
    /\ UNCHANGED cellVars

NextRefCell ==
    \/ Borrow
    \/ BorrowMut
    \/ \E g \in GuardIds : DropRef(g)
    \/ \E g \in GuardIds : DropRefMut(g)
    \/ \E g \in GuardIds : DerefRef(g)
    \/ \E g \in GuardIds : DerefRefMut(g)
    \/ \E g \in GuardIds, v \in Values : DerefMut(g, v)

SpecRefCell == Init /\ [][NextRefCell]_vars

\* std::mem::forget of a Ref guard: the guard is gone, its Drop does not run
ForgetRef(g) ==
    /\ panicked = "none"
    /\ g \in refs
    /\ refs' = refs \ {g}
    /\ call' = Returned("forget_ref", "unit", g, 0)
    /\ prev' = call
    /\ UNCHANGED <<state, value, muts, panicked>>
    /\ UNCHANGED rcVars
    /\ UNCHANGED cellVars

NextRefCellLeak ==
    \/ NextRefCell
    \/ \E g \in GuardIds : ForgetRef(g)

\* the RefCell with a client that may also leak Ref guards
SpecRefCellLeak == Init /\ [][NextRefCellLeak]_vars
\* --------------------------------------------------------------------- Rc
LiveHandles == {h \in HandleIds : handles[h] # 0}
FreeHandles == {h \in HandleIds : handles[h] = 0}
HandlesOf(b) == {h \in HandleIds : handles[h] = b}

\* what inner.refcount.get() can return through a handle to block b: the
\* stored count, or anything when the block has been deallocated
ReadRefcount(b) ==
    IF inner[b] = "alloc" THEN {CellGet(refcount[b])} ELSE 0..WordMax

\* what a read of inner.value can return through a handle to block b
ReadValue(b) ==
    IF inner[b] = "alloc" THEN {rcValue[b]} ELSE Values

\* Rc::new: a Box holding the value and a refcount of 1; h is the new handle
RcNew(h, v) ==
    /\ panicked = "none"
    /\ h \in FreeHandles
    /\ \E b \in Blocks :
          /\ inner[b] = "fresh"
          /\ inner' = [inner EXCEPT ![b] = "alloc"]
          /\ rcValue' = [rcValue EXCEPT ![b] = v]
          /\ refcount' = [refcount EXCEPT ![b] = CellNew(1)]
          /\ handles' = [handles EXCEPT ![h] = b]
          /\ rcCall' = RcReturned("new", "handle", h, b, 0)
    /\ UNCHANGED <<deallocs, panicked>>
    /\ UNCHANGED refcellVars
    /\ UNCHANGED cellVars

\* CloneOutcome that stores the count it read
CloneOutcomeNoIncrement(c) == {[ok |-> TRUE, v |-> c]}

\* the count Clone for Rc stores when it read count c, or its panic
CloneOutcome(c) == UsizeInc(c)

\* Clone for Rc: h2 is the new handle made from the handle h
RcClone(h, h2) ==
    /\ panicked = "none"
    /\ h \in LiveHandles
    /\ h2 \in FreeHandles
    /\ LET b == handles[h] IN
       \E c \in ReadRefcount(b) : \E o \in CloneOutcome(c) :
          IF o.ok
          THEN /\ refcount' = [refcount EXCEPT ![b] = CellSet(@, o.v)]
               /\ handles' = [handles EXCEPT ![h2] = b]
               /\ rcCall' = RcReturned("clone", "handle", h2, b, 0)
               /\ UNCHANGED panicked
          ELSE /\ panicked' = "overflow"
               /\ rcCall' = RcReturned("clone", "panic", 0, b, 0)
               /\ UNCHANGED <<refcount, handles>>
    /\ UNCHANGED <<inner, rcValue, deallocs>>
    /\ UNCHANGED refcellVars
    /\ UNCHANGED cellVars

\* Deref for Rc: a read of the value through the handle h
RcDeref(h) ==
    /\ panicked = "none"
    /\ h \in LiveHandles
    /\ \E v \in ReadValue(handles[h]) :
          rcCall' = RcReturned("deref", "unit", h, handles[h], v)
    /\ UNCHANGED <<inner, rcValue, refcount, handles, deallocs, panicked>>
    /\ UNCHANGED refcellVars
    /\ UNCHANGED cellVars

\* DropOutcome that frees the block one drop early
DropOutcomeFreesEarly(c) ==
    IF c <= 2
    THEN {[free |-> TRUE, ok |-> TRUE, v |-> c]}
    ELSE {[free |-> FALSE, ok |-> r.ok, v |-> r.v] : r \in UsizeDec(c)}

\* DropOutcome that frees the block on every drop
DropOutcomeAlwaysFrees(c) == {[free |-> TRUE, ok |-> TRUE, v |-> c]}

\* the match of Drop for Rc on the count c it read: free the block, store
\* c - 1, or panic
DropOutcome(c) ==
    IF c = 1
    THEN {[free |-> TRUE, ok |-> TRUE, v |-> c]}
    ELSE {[free |-> FALSE, ok |-> r.ok, v |-> r.v] : r \in UsizeDec(c)}

\* Drop for Rc: the client lets go of the handle h
RcDrop(h) ==
    /\ panicked = "none"
    /\ h \in LiveHandles
    /\ handles' = [handles EXCEPT ![h] = 0]
    /\ LET b == handles[h] IN
       \E c \in ReadRefcount(b) : \E o \in DropOutcome(c) :
          IF o.free
          THEN /\ deallocs[b] < MaxDeallocs
               /\ inner' = [inner EXCEPT ![b] = "freed"]
               /\ deallocs' = [deallocs EXCEPT ![b] = @ + 1]
               /\ rcCall' = RcReturned("drop", "freed", h, b, 0)
               /\ UNCHANGED <<refcount, panicked>>
          ELSE IF o.ok
          THEN /\ refcount' = [refcount EXCEPT ![b] = CellSet(@, o.v)]
               /\ rcCall' = RcReturned("drop", "unit", h, b, 0)
               /\ UNCHANGED <<inner, deallocs, panicked>>
          ELSE /\ panicked' = "overflow"
               /\ rcCall' = RcReturned("drop", "panic", h, b, 0)
               /\ UNCHANGED <<inner, deallocs, refcount>>
    /\ UNCHANGED rcValue
    /\ UNCHANGED refcellVars
    /\ UNCHANGED cellVars

NextRc ==
    \/ \E h \in HandleIds, v \in Values : RcNew(h, v)
    \/ \E h \in HandleIds, h2 \in HandleIds : RcClone(h, h2)
    \/ \E h \in HandleIds : RcDeref(h)
    \/ \E h \in HandleIds : RcDrop(h)

SpecRc == Init /\ [][NextRc]_vars

\* std::mem::forget of an Rc handle: the handle is gone, its Drop does not run
RcForget(h) ==
    /\ panicked = "none"
    /\ h \in LiveHandles
    /\ handles' = [handles EXCEPT ![h] = 0]
    /\ rcCall' = RcReturned("forget", "unit", h, handles[h], 0)
    /\ UNCHANGED <<inner, rcValue, refcount, deallocs, panicked>>
    /\ UNCHANGED refcellVars
    /\ UNCHANGED cellVars

NextRcLeak ==
    \/ NextRc
    \/ \E h \in HandleIds : RcForget(h)

\* Rc with a client that may also leak handles
SpecRcLeak == Init /\ [][NextRcLeak]_vars

\* ------------------------------------------------------- stand-alone Cell
\* Cell::set on the cell c
Set(c, v) ==
    /\ panicked = "none"
    /\ cells' = [cells EXCEPT ![c] = CellSet(@, v)]
    /\ written' = [written EXCEPT ![c] = v]
    /\ cellCall' = CellCalled("set", c, v)
    /\ cellPrev' = cellCall
    /\ UNCHANGED <<got, panicked>>
    /\ UNCHANGED refcellVars
    /\ UNCHANGED rcVars

\* Cell::get on the cell c: the caller receives a copy of the slot
Get(c) ==
    /\ panicked = "none"
    /\ got' = CellGet(cells[c])
    /\ cellCall' = CellCalled("get", c, 0)
    /\ cellPrev' = cellCall
    /\ UNCHANGED <<cells, written, panicked>>
    /\ UNCHANGED refcellVars
    /\ UNCHANGED rcVars

NextCell ==
    \/ \E c \in CellIds, v \in Values : Set(c, v)
    \/ \E c \in CellIds : Get(c)

\* Cell::new(v0) for every stand-alone cell, with any initial values
InitCell ==
    /\ state = CellNew(Unshared)
    /\ value = 0
    /\ refs = {}
    /\ muts = {}
    /\ call = NoCall
    /\ prev = NoCall
    /\ inner = [b \in Blocks |-> "fresh"]
    /\ rcValue = [b \in Blocks |-> 0]
    /\ refcount = [b \in Blocks |-> CellNew(0)]
    /\ handles = [h \in HandleIds |-> 0]
    /\ deallocs = [b \in Blocks |-> 0]
    /\ rcCall = NoRcCall
    /\ \E v0 \in [CellIds -> Values] :
          /\ cells = [c \in CellIds |-> CellNew(v0[c])]
          /\ written = v0
    /\ cellCall = NoCellCall
    /\ cellPrev = NoCellCall
    /\ got = "none"
    /\ panicked = "none"

SpecCell == InitCell /\ [][NextCell]_vars

Next == NextRefCell \/ NextRc \/ NextCell

Spec == Init /\ [][Next]_vars
\* ------------------------------------------------------ RefCell properties
\* C1: at most one RefMut guard is alive, and an alive RefMut guard never
\* coexists with an alive Ref guard.
C1_AliasingInvariant ==
    /\ Cardinality(muts) <= 1
    /\ muts # {} => refs = {}

\* a RefMut guard is alive and a further borrow_mut() has just been made
C1_Witness ==
    /\ muts # {}
    /\ call.op = "borrow_mut"
    /\ call.res = "None"

\* C2: the stored state is Shared(n) exactly when n >= 1 Ref guards are
\* alive, Exclusive exactly when one RefMut guard is alive, Unshared exactly
\* when no guard is alive; Shared(0) is never stored.
C2_StateTracksGuards ==
    LET s == CellGet(state) IN
    /\ s.tag = "Shared" => (s.n >= 1 /\ s.n = Cardinality(refs) /\ muts = {})
    /\ refs # {} => s.tag = "Shared"
    /\ s.tag = "Exclusive" <=> Cardinality(muts) = 1
    /\ s.tag = "Exclusive" => refs = {}
    /\ s.tag = "Unshared" <=> (refs = {} /\ muts = {})
    /\ s # Shared(0)

\* a Ref guard has just been released and two more are alive
C2_Witness ==
    /\ call.op = "drop_ref"
    /\ Cardinality(refs) = 2
    /\ CellGet(state) = Shared(2)

\* C6: borrow() called in Unshared returns a Ref guard and stores Shared(1);
\* called in Shared(n), n >= 1, it returns a Ref guard and stores Shared(n+1).
C6_BorrowSuccess ==
    [][call'.op = "borrow" =>
         LET s == CellGet(state) IN
         /\ s.tag = "Unshared" =>
               /\ call'.res = "Some"
               /\ CellGet(state') = Shared(1)
               /\ refs' = refs \cup {call'.guard}
               /\ call'.guard \notin refs \cup muts
         /\ (s.tag = "Shared" /\ s.n >= 1) =>
               /\ call'.res = "Some"
               /\ CellGet(state') = Shared(s.n + 1)
               /\ refs' = refs \cup {call'.guard}
               /\ call'.guard \notin refs \cup muts]_vars

\* the third borrow() in a row has returned a guard
C6_Witness ==
    /\ call.op = "borrow"
    /\ call.res = "Some"
    /\ CellGet(state) = Shared(3)

\* C7: borrow_mut() called in Unshared returns a RefMut guard and stores
\* Exclusive, and it returns a guard in no other state.
C7_BorrowMutOnlyFromUnshared ==
    [][call'.op = "borrow_mut" =>
         LET s == CellGet(state) IN
         /\ s.tag = "Unshared" =>
               /\ call'.res = "Some"
               /\ CellGet(state') = Exclusive
               /\ muts' = muts \cup {call'.guard}
               /\ call'.guard \notin refs \cup muts
         /\ call'.res = "Some" => s.tag = "Unshared"
         /\ s.tag # "Unshared" => call'.res = "None"]_vars

\* borrow_mut() has returned a guard
C7_Witness ==
    /\ call.op = "borrow_mut"
    /\ call.res = "Some"
    /\ CellGet(state) = Exclusive
    /\ muts = {call.guard}

\* C8: borrow() in Exclusive, and borrow_mut() in Shared(n) or Exclusive,
\* return None and leave the state, the live guards and the value unchanged.
C8_DeniedBorrowNoEffect ==
    [][LET s == CellGet(state) IN
       (\/ call'.op = "borrow" /\ s.tag = "Exclusive"
        \/ call'.op = "borrow_mut" /\ s.tag \in {"Shared", "Exclusive"})
       => /\ call'.res = "None"
          /\ call'.guard = 0
          /\ state' = state
          /\ refs' = refs
          /\ muts' = muts
          /\ value' = value
          /\ panicked' = panicked]_vars

\* borrow() has been denied while a RefMut guard is alive
C8_Witness ==
    /\ call.op = "borrow"
    /\ call.res = "None"
    /\ CellGet(state) = Exclusive
    /\ muts # {}

\* C9: releasing a Ref in Shared(1) stores Unshared, in Shared(n), n > 1,
\* stores Shared(n-1); releasing a RefMut in Exclusive stores Unshared;
\* whichever live guard is released, exactly that guard is gone.
C9_ReleaseTransitions ==
    [][LET s == CellGet(state) IN
       /\ call'.op = "drop_ref" =>
             /\ call'.guard \in refs
             /\ refs' = refs \ {call'.guard}
             /\ muts' = muts
             /\ s = Shared(1) => CellGet(state') = Unshared
             /\ (s.tag = "Shared" /\ s.n > 1) => CellGet(state') = Shared(s.n - 1)
       /\ call'.op = "drop_refmut" =>
             /\ call'.guard \in muts
             /\ muts' = muts \ {call'.guard}
             /\ refs' = refs
             /\ s = Exclusive => CellGet(state') = Unshared]_vars

\* the last of several Ref guards has just been released
C9_Witness ==
    /\ call.op = "drop_ref"
    /\ call.res = "unit"
    /\ CellGet(state) = Unshared
    /\ refs = {}

\* C10: a Ref is never released in Unshared or Exclusive and a RefMut never
\* in Unshared or Shared(n), so no Drop reaches its unreachable!().
C10_NoUnreachable ==
    /\ [](panicked # "unreachable")
    /\ [][/\ call'.op = "drop_ref" => CellGet(state).tag = "Shared"
          /\ call'.op = "drop_refmut" => CellGet(state).tag = "Exclusive"]_vars

\* a RefMut guard has just been released without a panic
C10_Witness ==
    /\ call.op = "drop_refmut"
    /\ call.res = "unit"
    /\ panicked = "none"
    /\ muts = {}

\* C11: once every obtained guard has been released the cell is Unshared, its
\* fields are those of a freshly constructed cell holding the same value, and
\* the next borrow() or borrow_mut() is granted as on a fresh cell.
C11_RoundTrip ==
    /\ []((refs = {} /\ muts = {}) =>
             [value |-> value, state |-> state] = RefCellNew(value))
    /\ [][(refs = {} /\ muts = {}) =>
             /\ call'.op = "borrow" =>
                   (call'.res = "Some" /\ CellGet(state') = Shared(1))
             /\ call'.op = "borrow_mut" =>
                   (call'.res = "Some" /\ CellGet(state') = Exclusive)]_vars

\* a borrow() has been granted right after the last guard was released
C11_Witness ==
    /\ prev.op \in {"drop_ref", "drop_refmut"}
    /\ prev.res = "unit"
    /\ call.op = "borrow"
    /\ call.res = "Some"
    /\ refs = {call.guard}
    /\ muts = {}
    /\ CellGet(state) = Shared(1)

\* C12: borrow_mut() returns None exactly while a Ref or a RefMut is alive,
\* borrow() returns None exactly while a RefMut is alive; so the first
\* request after the last conflicting guard is released is granted.
C12_ConflictUntilRelease ==
    [][/\ call'.op = "borrow_mut" =>
             /\ (refs # {} \/ muts # {}) => call'.res = "None"
             /\ (refs = {} /\ muts = {}) => call'.res = "Some"
       /\ call'.op = "borrow" =>
             /\ muts # {} => call'.res = "None"
             /\ muts = {} => call'.res = "Some"]_vars

\* borrow_mut() has been granted right after the last Ref was released
C12_Witness ==
    /\ prev.op = "drop_ref"
    /\ call.op = "borrow_mut"
    /\ call.res = "Some"
    /\ muts = {call.guard}
    /\ refs = {}

\* C17: borrow() and borrow_mut() finish in one step with a guard or with
\* None; after a denied request the release of a guard removes that guard
\* only, grants nothing and stores the state of the release transition.
C17_NoPendingRequest ==
    [][/\ call'.op \in {"borrow", "borrow_mut"} =>
             /\ call'.res \in {"Some", "None"}
             /\ call'.res = "Some" =>
                   (refs' \cup muts') = (refs \cup muts) \cup {call'.guard}
             /\ call'.res = "None" => (refs' = refs /\ muts' = muts)
       /\ (call.res = "None" /\ call'.op \in {"drop_ref", "drop_refmut"}) =>
             /\ refs' = refs \ {call'.guard}
             /\ muts' = muts \ {call'.guard}
             /\ CellGet(state') =
                   IF refs' = {} THEN Unshared ELSE Shared(Cardinality(refs'))]_vars

\* the RefMut guard has been released right after a request was denied, and
\* no guard is alive
C17_Witness ==
    /\ prev.op \in {"borrow", "borrow_mut"}
    /\ prev.res = "None"
    /\ call.op = "drop_refmut"
    /\ refs = {}
    /\ muts = {}
    /\ CellGet(state) = Unshared

\* C18: the wrapped value changes only by a write through an alive RefMut;
\* borrows, reads and releases leave it unchanged, it is constant while a Ref
\* is alive, and a read through a guard returns the value written last.
C18_ValueChangesOnlyThroughRefMut ==
    [][/\ value' # value =>
             (call'.op = "deref_mut" /\ call'.guard \in muts /\ value' = call'.read)
       /\ call'.op \in {"borrow", "borrow_mut", "drop_ref", "drop_refmut",
                        "deref_ref", "deref_refmut"} => value' = value
       /\ refs # {} => value' = value
       /\ call'.op = "deref_ref" => (call'.guard \in refs /\ call'.read = value)
       /\ call'.op = "deref_refmut" => (call'.guard \in muts /\ call'.read = value)
       /\ (call.op = "deref_mut" /\ call'.op \in {"deref_ref", "deref_refmut"}) =>
             call'.read = call.read]_vars

\* a read through the RefMut guard has returned the value just written
C18_Witness ==
    /\ prev.op = "deref_mut"
    /\ call.op = "deref_refmut"
    /\ call.read = prev.read
    /\ call.read = value
    /\ muts = {call.guard}

\* ----------------------------------------------------------- Rc properties
\* C3: the refcount stored in an allocated block equals the number of live
\* handles that reference the block.
C3_CountEqualsHandles ==
    \A b \in Blocks :
        inner[b] = "alloc" => CellGet(refcount[b]) = Cardinality(HandlesOf(b))

\* a handle has just been dropped and two handles of its block remain
C3_Witness ==
    /\ rcCall.op = "drop"
    /\ rcCall.res = "unit"
    /\ inner[rcCall.block] = "alloc"
    /\ Cardinality(HandlesOf(rcCall.block)) = 2

\* C4: a block is deallocated at most once, only by the drop of its last
\* live handle, and it is deallocated once all its handles are dropped.
C4_SingleDeallocation ==
    /\ [](\A b \in Blocks : deallocs[b] <= 1)
    /\ [](\A b \in Blocks :
             (inner[b] # "fresh" /\ HandlesOf(b) = {}) => deallocs[b] = 1)
    /\ [](\A b \in Blocks : HandlesOf(b) # {} => deallocs[b] = 0)
    /\ [][\A b \in Blocks :
             deallocs'[b] # deallocs[b] =>
                /\ deallocs'[b] = deallocs[b] + 1
                /\ rcCall'.op = "drop"
                /\ rcCall'.block = b
                /\ HandlesOf(b) = {rcCall'.handle}
                /\ handles'[rcCall'.handle] = 0]_vars

\* the drop of the last handle has just deallocated a block
C4_Witness ==
    /\ rcCall.op = "drop"
    /\ rcCall.res = "freed"
    /\ deallocs[rcCall.block] = 1
    /\ HandlesOf(rcCall.block) = {}

\* C5: a block is allocated exactly when a live handle references it, an
\* allocated block has refcount >= 1, and every deref, clone or drop through
\* a handle accesses a block that is allocated.
C5_NoUseAfterFree ==
    /\ [](\A b \in Blocks :
             /\ inner[b] = "alloc" <=> HandlesOf(b) # {}
             /\ inner[b] = "alloc" <=> (inner[b] # "fresh" /\ deallocs[b] = 0)
             /\ inner[b] = "alloc" => CellGet(refcount[b]) >= 1)
    /\ [][rcCall'.op \in {"deref", "clone", "drop"} =>
             inner[rcCall'.block] = "alloc"]_vars

\* a value has just been read through one of the two handles that share a
\* block
C5_Witness ==
    /\ rcCall.op = "deref"
    /\ inner[rcCall.block] = "alloc"
    /\ CellGet(refcount[rcCall.block]) = 2
    /\ \E h \in HandleIds : handles[h] = 0
\* C14: clone() on a live handle adds exactly one to the refcount of that
\* handle's block and returns a new handle to the same block; no block is
\* allocated or freed, no value changes, no other refcount changes.
C14_CloneEffect ==
    [][rcCall'.op = "clone" =>
         LET b == rcCall'.block
             h2 == rcCall'.handle
         IN /\ rcCall'.res = "handle"
            /\ HandlesOf(b) # {}
            /\ inner[b] = "alloc"
            /\ CellGet(refcount'[b]) = CellGet(refcount[b]) + 1
            /\ handles[h2] = 0
            /\ handles' = [handles EXCEPT ![h2] = b]
            /\ inner' = inner
            /\ rcValue' = rcValue
            /\ deallocs' = deallocs
            /\ \A b2 \in Blocks \ {b} : refcount'[b2] = refcount[b2]]_vars

\* a handle has just been cloned while a second block is allocated
C14_Witness ==
    /\ rcCall.op = "clone"
    /\ rcCall.res = "handle"
    /\ CellGet(refcount[rcCall.block]) = 2
    /\ Cardinality(HandlesOf(rcCall.block)) = 2
    /\ \E b2 \in Blocks \ {rcCall.block} :
          inner[b2] = "alloc" /\ CellGet(refcount[b2]) = 1

\* C15: dropping a handle whose block has refcount 1 deallocates the block;
\* with any other refcount it subtracts one and leaves the block allocated
\* with its value unchanged.
C15_DropDecision ==
    [][rcCall'.op = "drop" =>
         LET b == rcCall'.block
             h == rcCall'.handle
         IN /\ handles[h] = b
            /\ handles' = [handles EXCEPT ![h] = 0]
            /\ rcValue' = rcValue
            /\ IF CellGet(refcount[b]) = 1
               THEN /\ rcCall'.res = "freed"
                    /\ inner[b] = "alloc"
                    /\ inner' = [inner EXCEPT ![b] = "freed"]
                    /\ deallocs' = [deallocs EXCEPT ![b] = deallocs[b] + 1]
               ELSE /\ rcCall'.res = "unit"
                    /\ CellGet(refcount'[b]) = CellGet(refcount[b]) - 1
                    /\ CellGet(refcount[b]) >= 2
                    /\ inner' = inner
                    /\ inner[b] = "alloc"
                    /\ deallocs' = deallocs
            /\ \A b2 \in Blocks \ {b} : refcount'[b2] = refcount[b2]]_vars

\* a drop has just left its block allocated with one handle
C15_Witness ==
    /\ rcCall.op = "drop"
    /\ rcCall.res = "unit"
    /\ inner[rcCall.block] = "alloc"
    /\ CellGet(refcount[rcCall.block]) = 1
    /\ Cardinality(HandlesOf(rcCall.block)) = 1

\* --------------------------------------------------------- Cell properties
\* C13: get() returns the argument of the most recent set on that cell (the
\* argument of new if there was none), whatever was stored before, and get()
\* does not change the stored value.
C13_GetReturnsLastSet ==
    /\ [][cellCall'.op = "get" =>
             /\ got' = written[cellCall'.cell]
             /\ cells' = cells]_vars
    /\ [][(cellCall.op = "set" /\ cellCall'.op = "get"
           /\ cellCall'.cell = cellCall.cell) => got' = cellCall.arg]_vars

\* get() has just returned 1, the argument of the preceding set on that cell,
\* while another cell holds 0
C13_Witness ==
    /\ cellPrev.op = "set"
    /\ cellCall.op = "get"
    /\ cellCall.cell = cellPrev.cell
    /\ got = cellPrev.arg
    /\ got = 1
    /\ \E c \in CellIds : c # cellCall.cell /\ written[c] = 0
\* ------------------------------------------------- properties under leaks
\* C19: also when handles are leaked, the refcount arithmetic of clone and
\* drop never leaves the usize range, and the stored refcount of a block is
\* never below the number of its live handles.
C19_RefcountInRange ==
    /\ panicked # "overflow"
    /\ \A b \in Blocks :
          inner[b] = "alloc" =>
             CellGet(refcount[b]) >= Cardinality(HandlesOf(b))

\* C20: also when Ref guards are leaked, the arithmetic on the count of
\* Shared(n) never leaves the usize range, and the state is never Shared(0)
\* or Unshared (or Exclusive) while a Ref is alive.
C20_SharedCountInRange ==
    /\ panicked # "overflow"
    /\ CellGet(state) # Shared(0)
    /\ refs # {} => CellGet(state).tag = "Shared"
====
